---- MODULE Spec2Model ----
(***************************************************************************)
(* Model of ContrastiveLearning.ipynb: the triplet sampler                 *)
(* (MNISTTripletDataset), the two margin losses (ContrastiveLoss,          *)
(* TripletLoss) and the contrastive training loop.                         *)
(*                                                                         *)
(* The specifications share the variables:                                 *)
(*   Spec, FairSpec   the sampler: __getitem__ as a step machine over the  *)
(*                    lines of its body, and __len__ (FairSpec: with fair  *)
(*                    random draws);                                       *)
(*   LossSpec         the two forward() functions applied to bounded       *)
(*                    batches of embeddings;                               *)
(*   TrainSpec        the contrastive training loop over bounded batches.  *)
(* Each specification keeps the variables of the others at their initial   *)
(* values.                                                                 *)
(***************************************************************************)
EXTENDS Integers, Sequences, FiniteSets

VARIABLES
    dataset,         \* the object self.dataset refers to: a sequence of [input, label]
    dataset0,        \* history: the dataset as it was handed to __init__
    pc,              \* position of the sampler: idle, a line of __getitem__, returned, raised
    index,           \* __getitem__'s argument (of the last call; meaningless while idle)
    anchor,          \* local of __getitem__
    anchor_label,    \* local of __getitem__
    positive_index,  \* local of __getitem__
    negative_index,  \* local of __getitem__
    positive,        \* local of __getitem__
    result,          \* outcome of the last __getitem__: << >> none yet, <<a, p, n>> returned, <<error>> raised
    rng,             \* state of the process-wide random generator: its position in its stream, modulo RngPeriod
    len_results,     \* the values __len__ has returned so far
    prev_result      \* history: what the call before this one returned, if it had the same index; else << >>

samplerVars == <<dataset, dataset0, pc, index, anchor, anchor_label, positive_index,
                 negative_index, positive, result, rng, len_results, prev_result>>

VARIABLES
    batch,            \* forward()'s arguments: [anchor, positive, negative], each a sequence of embeddings
    margin,           \* self.margin of the criterion
    contrastive_out,  \* << >>, or the loss ContrastiveLoss.forward returned
    triplet_out,      \* << >>, or the loss TripletLoss.forward returned
    shift,            \* the vector added to every embedding of the translated call
    shifted_out       \* << >>, or the loss TripletLoss.forward returned for the translated batch

lossVars == <<batch, margin, contrastive_out, triplet_out, shift, shifted_out>>

VARIABLES
    tpc,               \* position of the running training loop: a line of its cell, or done
    epoch,             \* the loop variable of line 173
    batch_no,          \* batches of this epoch already trained on
    labels,            \* the labels train_loader yielded with the images (the loop drops them)
    embeddings,        \* row r names the example of the batch it is the embedding of
    positive_samples,  \* line 183
    negative_samples,  \* line 184
    loss_args,         \* the three batches handed to criterion at line 187
    grad,              \* the parameters' gradients: "none", "zero", "of_batch", "of_earlier_batch"
    updates,           \* optimizer.step() calls of the current optimizer so far
    steps,             \* history: the steps taken on the current batch, in the order taken
    loop,              \* the training cell that is running: "contrastive", then "triplet"
    triplet_batch,     \* rows of the batch of triplets yielded at line 371 (0: none yet)
    triplet_embeddings \* << >>, or <<anchor_embedding, positive_embedding, negative_embedding>>

tripletVars == <<loop, triplet_batch, triplet_embeddings>>

trainVars == <<tpc, epoch, batch_no, labels, embeddings, positive_samples, negative_samples,
               loss_args, grad, updates, steps, tripletVars>>

vars == <<samplerVars, lossVars, trainVars>>

Unset == 0 - 1    \* an unset local

IndexError == 0 - 2    \* the exception a sequence raises for a position it does not have

(***************************************************************************)
(* Bounds of the sampler model.                                            *)
(***************************************************************************)
MaxLen == 3       \* longest dataset
NumLabels == 2    \* labels are 0 .. NumLabels-1
RngPeriod == 2    \* the generator's stream position is kept modulo this

Labels == 0 .. NumLabels - 1
(* Example j of a dataset holds image j: the inputs of a dataset are distinct. *)
Datasets ==
    UNION {{[j \in 1 .. n |-> [input |-> j, label |-> ls[j]]] : ls \in [1 .. n -> Labels]}
              : n \in 0 .. MaxLen}
Indices == -(MaxLen + 1) .. MaxLen

DistinctLabels(ds) == {ds[j].label : j \in 1 .. Len(ds)}

(***************************************************************************)
(* self.dataset[i] for a Python sequence (a list, the tensors the MNIST    *)
(* dataset indexes): positions 0 .. n-1, negative positions -n .. -1       *)
(* counting from the end, IndexError anywhere else.                        *)
(***************************************************************************)
InRange(ds, i) == -Len(ds) <= i /\ i < Len(ds)

DatasetGetItem(ds, i) == IF i >= 0 THEN ds[i + 1] ELSE ds[Len(ds) + i + 1]

RandIntShort(high) == 0 .. high - 2

(* torch.randint(high=len(self.dataset), size=(1,)).item(): any of 0 .. high-1 *)
RandInt(high) == 0 .. high - 1

SamplerLenShort == Len(dataset) - 1

(* __len__ *)
SamplerLen == Len(dataset)

(* the loop conditions of the two rejection loops *)
PositiveRejected(k) == DatasetGetItem(dataset, k).label # anchor_label

NegativeRejectedFlipped(k) == DatasetGetItem(dataset, k).label # anchor_label

NegativeRejected(k) == DatasetGetItem(dataset, k).label = anchor_label

(* one call of torch.randint advances the generator *)
Advance(g) == (g + 1) % RngPeriod

NotInCall == pc \in {"idle", "returned", "raised"}

SamplerInit ==
    /\ dataset \in Datasets
    /\ dataset0 = dataset
    /\ pc = "idle"
    /\ index = 0
    /\ anchor = Unset
    /\ anchor_label = Unset
    /\ positive_index = Unset
    /\ negative_index = Unset
    /\ positive = Unset
    /\ result = << >>
    /\ rng = 0
    /\ len_results = {}
    /\ prev_result = << >>

(* a __getitem__ that keeps the triplet of the last call and hands it out   *)
(* again when the same index is asked for                                  *)
GetItemCached(i) ==
    /\ NotInCall
    /\ index' = i
    /\ prev_result' = IF pc = "returned" /\ i = index THEN result ELSE << >>
    /\ IF pc = "returned" /\ i = index
       THEN UNCHANGED <<anchor, anchor_label, positive_index, negative_index, positive,
                        result, pc>>
       ELSE /\ positive_index' = Unset
            /\ negative_index' = Unset
            /\ positive' = Unset
            /\ IF InRange(dataset, i)
               THEN /\ anchor' = DatasetGetItem(dataset, i).input
                    /\ anchor_label' = DatasetGetItem(dataset, i).label
                    /\ result' = << >>
                    /\ pc' = "L260"
               ELSE /\ anchor' = Unset
                    /\ anchor_label' = Unset
                    /\ result' = <<IndexError>>
                    /\ pc' = "raised"
    /\ UNCHANGED <<dataset, dataset0, rng, len_results>>
    /\ UNCHANGED <<lossVars, trainVars>>

(* line 257: anchor, anchor_label = self.dataset[index] *)
GetItem(i) ==
    /\ NotInCall
    /\ index' = i
    /\ positive_index' = Unset
    /\ negative_index' = Unset
    /\ positive' = Unset
    /\ IF InRange(dataset, i)
       THEN /\ anchor' = DatasetGetItem(dataset, i).input
            /\ anchor_label' = DatasetGetItem(dataset, i).label
            /\ result' = << >>
            /\ pc' = "L260"
       ELSE /\ anchor' = Unset
            /\ anchor_label' = Unset
            /\ result' = <<IndexError>>
            /\ pc' = "raised"
    /\ prev_result' = IF pc = "returned" /\ i = index THEN result ELSE << >>
    /\ UNCHANGED <<dataset, dataset0, rng, len_results>>
    /\ UNCHANGED <<lossVars, trainVars>>

(* line 260: the first draw of the positive search *)
DrawPositive(k) ==
    /\ pc = "L260"
    /\ k \in RandInt(Len(dataset))
    /\ positive_index' = k
    /\ rng' = Advance(rng)
    /\ pc' = "L261"
    /\ UNCHANGED <<dataset, dataset0, index, anchor, anchor_label, negative_index,
                   positive, result, len_results>>
    /\ UNCHANGED prev_result
    /\ UNCHANGED <<lossVars, trainVars>>

(* lines 261-262: the label differs, draw again *)
RetryPositive(k) ==
    /\ pc = "L261"
    /\ PositiveRejected(positive_index)
    /\ k \in RandInt(Len(dataset))
    /\ positive_index' = k
    /\ rng' = Advance(rng)
    /\ UNCHANGED <<dataset, dataset0, pc, index, anchor, anchor_label, negative_index,
                   positive, result, len_results>>
    /\ UNCHANGED prev_result
    /\ UNCHANGED <<lossVars, trainVars>>

(* lines 261, 263: the label matches, positive, _ = self.dataset[positive_index] *)
TakePositive ==
    /\ pc = "L261"
    /\ ~PositiveRejected(positive_index)
    /\ positive' = DatasetGetItem(dataset, positive_index).input
    /\ pc' = "L266"
    /\ UNCHANGED <<dataset, dataset0, index, anchor, anchor_label, positive_index,
                   negative_index, result, rng, len_results>>
    /\ UNCHANGED prev_result
    /\ UNCHANGED <<lossVars, trainVars>>

(* line 266: the first draw of the negative search *)
DrawNegative(k) ==
    /\ pc = "L266"
    /\ k \in RandInt(Len(dataset))
    /\ negative_index' = k
    /\ rng' = Advance(rng)
    /\ pc' = "L267"
    /\ UNCHANGED <<dataset, dataset0, index, anchor, anchor_label, positive_index,
                   positive, result, len_results>>
    /\ UNCHANGED prev_result
    /\ UNCHANGED <<lossVars, trainVars>>

(* lines 267-268: the label is the anchor's, draw again *)
RetryNegative(k) ==
    /\ pc = "L267"
    /\ NegativeRejected(negative_index)
    /\ k \in RandInt(Len(dataset))
    /\ negative_index' = k
    /\ rng' = Advance(rng)
    /\ UNCHANGED <<dataset, dataset0, pc, index, anchor, anchor_label, positive_index,
                   positive, result, len_results>>
    /\ UNCHANGED prev_result
    /\ UNCHANGED <<lossVars, trainVars>>

(* lines 267, 269, 271: negative, _ = self.dataset[negative_index]; return *)
ReturnTriplet ==
    /\ pc = "L267"
    /\ ~NegativeRejected(negative_index)
    /\ result' = <<anchor, positive, DatasetGetItem(dataset, negative_index).input>>
    /\ pc' = "returned"
    /\ UNCHANGED <<dataset, dataset0, index, anchor, anchor_label, positive_index,
                   negative_index, positive, rng, len_results>>
    /\ UNCHANGED prev_result
    /\ UNCHANGED <<lossVars, trainVars>>

(* lines 273-274: __len__, between two __getitem__ calls *)
LenCall ==
    /\ NotInCall
    /\ len_results' = len_results \cup {SamplerLen}
    /\ UNCHANGED <<dataset, dataset0, pc, index, anchor, anchor_label, positive_index,
                   negative_index, positive, result, rng>>
    /\ UNCHANGED prev_result
    /\ UNCHANGED <<lossVars, trainVars>>

SamplerNext ==
    \/ \E i \in Indices : GetItem(i)
    \/ \E k \in RandInt(MaxLen) : DrawPositive(k)
    \/ \E k \in RandInt(MaxLen) : RetryPositive(k)
    \/ TakePositive
    \/ \E k \in RandInt(MaxLen) : DrawNegative(k)
    \/ \E k \in RandInt(MaxLen) : RetryNegative(k)
    \/ ReturnTriplet
    \/ LenCall

(***************************************************************************)
(* The margin losses.  Numbers are fixed-point: an integer g stands for    *)
(* g / One.  A square root is rounded to the nearest grid value, as the    *)
(* floating-point square root is rounded to the nearest representable      *)
(* value; the mean of a batch is kept exact, as a fraction <<num, den>> in *)
(* lowest terms.                                                           *)
(***************************************************************************)
HalfUnit == 500   \* grid steps per 0.5
MaxBatch == 2     \* largest batch

One == 2 * HalfUnit

(* torch.nn.functional.pairwise_distance(x1, x2, p=2.0, eps=1e-6) is       *)
(* || x1 - x2 + eps ||: eps is added to every component of the difference. *)
(* The smallest positive grid value stands for the default eps.            *)
PairwiseEps == 1

AnchorVecs == {<<0, 0>>, <<One, 0>>}
Vecs == {<<0, 0>>, <<One, 0>>, <<0, One>>}
Margins == {0, HalfUnit, One}
ShiftVecs == {<<0 - HalfUnit, One>>, <<3, 0 - 7>>}
BatchSizes == 1 .. MaxBatch
Batches ==
    UNION {[anchor : [1 .. n -> AnchorVecs], positive : [1 .. n -> Vecs], negative : [1 .. n -> Vecs]]
              : n \in BatchSizes}

NoBatch == [anchor |-> << >>, positive |-> << >>, negative |-> << >>]

RECURSIVE SumSeq(_)
SumSeq(v) == IF v = << >> THEN 0 ELSE v[1] + SumSeq(Tail(v))

RECURSIVE GCD(_, _)
GCD(a, b) == IF b = 0 THEN a ELSE GCD(b, a % b)

Abs(x) == IF x < 0 THEN 0 - x ELSE x

(* the fraction n / d, d > 0, in lowest terms *)
Rat(n, d) == LET g == GCD(Abs(n), d) IN <<n \div g, d \div g>>

(* the largest r in lo .. hi with r * r <= n, given lo * lo <= n *)
RECURSIVE SqrtFloor(_, _, _)
SqrtFloor(n, lo, hi) ==
    IF lo = hi THEN lo
    ELSE LET mid == (lo + hi + 1) \div 2
         IN IF mid * mid <= n THEN SqrtFloor(n, mid, hi) ELSE SqrtFloor(n, lo, mid - 1)

(* sqrt(n) rounded to the nearest integer: floor((floor(sqrt(4n)) + 1) / 2) *)
(* (46340 is the largest root whose square fits a 32-bit integer) *)
SqrtRound(n) == (SqrtFloor(4 * n, 0, IF 4 * n < 46340 THEN 4 * n ELSE 46340) + 1) \div 2

(* x - y and x + c on tensors of shape (batch, dim) *)
TensorSub(x, y) == [i \in DOMAIN x |-> [j \in DOMAIN x[i] |-> x[i][j] - y[i][j]]]

TensorAdd(x, y) == [i \in DOMAIN x |-> [j \in DOMAIN x[i] |-> x[i][j] + y[i][j]]]

TensorAddScalar(x, c) == [i \in DOMAIN x |-> [j \in DOMAIN x[i] |-> x[i][j] + c]]

(* torch.norm(x, p=2, dim=1): one norm per row *)
NormDim1(x) == [i \in DOMAIN x |-> SqrtRound(SumSeq([j \in DOMAIN x[i] |-> x[i][j] * x[i][j]]))]

pairwise_distance(x1, x2) == NormDim1(TensorAddScalar(TensorSub(x1, x2), PairwiseEps))

ReluIdentity(v) == v

(* torch.relu, elementwise *)
Relu(v) == [i \in DOMAIN v |-> IF v[i] > 0 THEN v[i] ELSE 0]

MeanAsSum(v) == Rat(SumSeq(v), 1)

(* torch.mean / Tensor.mean over a 1-D tensor *)
Mean(v) == Rat(SumSeq(v), Len(v))

ContrastiveLoss_forward_Swapped(anchor_, positive_, negative_) ==
    LET distance_positive == pairwise_distance(anchor_, positive_)
        distance_negative == pairwise_distance(anchor_, negative_)
    IN Mean(Relu([i \in DOMAIN distance_positive |->
                     distance_negative[i] - distance_positive[i] + margin]))

(* lines 116-120 *)
ContrastiveLoss_forward(anchor_, positive_, negative_) ==
    LET distance_positive == pairwise_distance(anchor_, positive_)
        distance_negative == pairwise_distance(anchor_, negative_)
    IN Mean(Relu([i \in DOMAIN distance_positive |->
                     distance_positive[i] - distance_negative[i] + margin]))

TripletLoss_forward_NoSub(anchor_, positive_, negative_) ==
    LET distance_positive == NormDim1(TensorAdd(anchor_, positive_))
        distance_negative == NormDim1(TensorAdd(anchor_, negative_))
        losses == Relu([i \in DOMAIN distance_positive |->
                           distance_positive[i] - distance_negative[i] + margin])
    IN Mean(losses)

(* lines 228-232 *)
TripletLoss_forward(anchor_, positive_, negative_) ==
    LET distance_positive == NormDim1(TensorSub(anchor_, positive_))
        distance_negative == NormDim1(TensorSub(anchor_, negative_))
        losses == Relu([i \in DOMAIN distance_positive |->
                           distance_positive[i] - distance_negative[i] + margin])
    IN Mean(losses)

(* a + c, p + c, n + c: the same vector c added to every embedding *)
Translate(x, c) == [i \in DOMAIN x |-> [j \in DOMAIN x[i] |-> x[i][j] + c[j]]]

LossIdle ==
    /\ batch = NoBatch
    /\ margin = One
    /\ contrastive_out = << >>
    /\ triplet_out = << >>
    /\ shift = <<0, 0>>
    /\ shifted_out = << >>

LossInit ==
    /\ batch \in Batches
    /\ margin \in Margins
    /\ contrastive_out = << >>
    /\ triplet_out = << >>
    /\ shift = <<0, 0>>
    /\ shifted_out = << >>

(* criterion = ContrastiveLoss(margin); criterion(anchor, positive, negative) *)
ContrastiveForward ==
    /\ contrastive_out = << >>
    /\ contrastive_out' = ContrastiveLoss_forward(batch.anchor, batch.positive, batch.negative)
    /\ UNCHANGED <<batch, margin, triplet_out, shift, shifted_out>>
    /\ UNCHANGED <<samplerVars, trainVars>>

(* criterion = TripletLoss(margin); criterion(anchor, positive, negative) *)
TripletForward ==
    /\ contrastive_out # << >>
    /\ triplet_out = << >>
    /\ triplet_out' = TripletLoss_forward(batch.anchor, batch.positive, batch.negative)
    /\ UNCHANGED <<batch, margin, contrastive_out, shift, shifted_out>>
    /\ UNCHANGED <<samplerVars, trainVars>>

(* the same criterion on the batch translated by c *)
TripletForwardTranslated(c) ==
    /\ triplet_out # << >>
    /\ shifted_out = << >>
    /\ shift' = c
    /\ shifted_out' = TripletLoss_forward(Translate(batch.anchor, c),
                                          Translate(batch.positive, c),
                                          Translate(batch.negative, c))
    /\ UNCHANGED <<batch, margin, contrastive_out, triplet_out>>
    /\ UNCHANGED <<samplerVars, trainVars>>

LossNext ==
    \/ ContrastiveForward
    \/ TripletForward
    \/ \E c \in ShiftVecs : TripletForwardTranslated(c)

(***************************************************************************)
(* The contrastive training loop (lines 173-198).  An embedding is named   *)
(* by the row of the batch it was computed from, so that the rows of       *)
(* positive_samples and negative_samples can be traced to their examples.  *)
(* train_loader holds 60000 examples in shuffled batches of 32: every      *)
(* batch is full, so the model's batches have at least two examples.       *)
(***************************************************************************)
MaxEpochs == 2         \* epochs modelled (num_epochs)
BatchesPerEpoch == 2   \* len(train_loader)

TrainBatchSizes == 2 .. MaxBatch + 1
LabelBatches == UNION {[1 .. n -> Labels] : n \in TrainBatchSizes}

(* torch.flip(x, dims=[0]) *)
Flip(x) == [r \in 1 .. Len(x) |-> x[Len(x) + 1 - r]]

(* torch.cat((x[1:], x[0].unsqueeze(0)), dim=0) *)
RotateLeft(x) == Tail(x) \o <<Head(x)>>

TrainInit ==
    /\ tpc = "L176"
    /\ epoch = 0
    /\ batch_no = 0
    /\ labels = << >>
    /\ embeddings = << >>
    /\ positive_samples = << >>
    /\ negative_samples = << >>
    /\ loss_args = << >>
    /\ grad = "none"
    /\ updates = 0
    /\ steps = << >>
    /\ loop = "contrastive"
    /\ triplet_batch = 0
    /\ triplet_embeddings = << >>

(* line 176: the loader yields the next batch *)
NextBatch(ls) ==
    /\ tpc = "L176"
    /\ batch_no < BatchesPerEpoch
    /\ labels' = ls
    /\ embeddings' = << >>
    /\ positive_samples' = << >>
    /\ negative_samples' = << >>
    /\ loss_args' = << >>
    /\ grad' = IF grad = "of_batch" THEN "of_earlier_batch" ELSE grad
    /\ tpc' = "L180"
    /\ UNCHANGED <<epoch, batch_no, updates>>
    /\ steps' = << >>
    /\ UNCHANGED tripletVars
    /\ UNCHANGED <<samplerVars, lossVars>>

(* line 180: embeddings = model(images) *)
ForwardPass ==
    /\ tpc = "L180"
    /\ embeddings' = [r \in 1 .. Len(labels) |-> r]
    /\ tpc' = "L183"
    /\ UNCHANGED <<epoch, batch_no, labels, positive_samples, negative_samples, loss_args,
                   grad, updates>>
    /\ steps' = Append(steps, "forward")
    /\ UNCHANGED tripletVars
    /\ UNCHANGED <<samplerVars, lossVars>>

(* line 183 *)
MakePositiveSamples ==
    /\ tpc = "L183"
    /\ positive_samples' = Flip(embeddings)
    /\ tpc' = "L184"
    /\ UNCHANGED <<epoch, batch_no, labels, embeddings, negative_samples, loss_args, grad,
                   updates>>
    /\ UNCHANGED steps
    /\ UNCHANGED tripletVars
    /\ UNCHANGED <<samplerVars, lossVars>>

(* line 184 *)
MakeNegativeSamples ==
    /\ tpc = "L184"
    /\ negative_samples' = RotateLeft(embeddings)
    /\ tpc' = "L187"
    /\ UNCHANGED <<epoch, batch_no, labels, embeddings, positive_samples, loss_args, grad,
                   updates>>
    /\ UNCHANGED steps
    /\ UNCHANGED tripletVars
    /\ UNCHANGED <<samplerVars, lossVars>>

(* line 187: loss = criterion(embeddings, positive_samples, negative_samples) *)
ComputeLoss ==
    /\ tpc = "L187"
    /\ loss_args' = <<embeddings, positive_samples, negative_samples>>
    /\ tpc' = "L190"
    /\ UNCHANGED <<epoch, batch_no, labels, embeddings, positive_samples, negative_samples,
                   grad, updates>>
    /\ steps' = Append(steps, "loss")
    /\ UNCHANGED tripletVars
    /\ UNCHANGED <<samplerVars, lossVars>>

(* an optimizer.zero_grad() that clears nothing *)
ZeroGradSkipped ==
    /\ tpc = "L190"
    /\ grad' = grad
    /\ tpc' = "L191"
    /\ UNCHANGED <<epoch, batch_no, labels, embeddings, positive_samples, negative_samples,
                   loss_args, updates>>
    /\ steps' = Append(steps, "zero_grad")
    /\ UNCHANGED tripletVars
    /\ UNCHANGED <<samplerVars, lossVars>>

(* line 190: optimizer.zero_grad() *)
ZeroGrad ==
    /\ tpc = "L190"
    /\ grad' = "zero"
    /\ tpc' = "L191"
    /\ UNCHANGED <<epoch, batch_no, labels, embeddings, positive_samples, negative_samples,
                   loss_args, updates>>
    /\ steps' = Append(steps, "zero_grad")
    /\ UNCHANGED tripletVars
    /\ UNCHANGED <<samplerVars, lossVars>>

(* line 191: loss.backward() adds this batch's gradient to what is stored *)
Backward ==
    /\ tpc = "L191"
    /\ grad' = IF grad \in {"zero", "none"} THEN "of_batch" ELSE "mixed"
    /\ tpc' = "L192"
    /\ UNCHANGED <<epoch, batch_no, labels, embeddings, positive_samples, negative_samples,
                   loss_args, updates>>
    /\ steps' = Append(steps, "backward")
    /\ UNCHANGED tripletVars
    /\ UNCHANGED <<samplerVars, lossVars>>

(* line 192: optimizer.step() *)
OptimizerStep ==
    /\ tpc = "L192"
    /\ updates' = updates + 1
    /\ tpc' = "L194"
    /\ UNCHANGED <<epoch, batch_no, labels, embeddings, positive_samples, negative_samples,
                   loss_args, grad>>
    /\ steps' = Append(steps, "update")
    /\ UNCHANGED tripletVars
    /\ UNCHANGED <<samplerVars, lossVars>>

(* line 194: running_loss += loss.item(), and back to the head of the loop *)
AccumulateLoss ==
    /\ tpc = "L194"
    /\ batch_no' = batch_no + 1
    /\ tpc' = "L176"
    /\ UNCHANGED <<epoch, labels, embeddings, positive_samples, negative_samples, loss_args,
                   grad, updates>>
    /\ UNCHANGED steps
    /\ UNCHANGED tripletVars
    /\ UNCHANGED <<samplerVars, lossVars>>

(* lines 197-198, 173: the loader is exhausted, the epoch ends *)
EndEpoch ==
    /\ tpc = "L176"
    /\ batch_no = BatchesPerEpoch
    /\ epoch' = epoch + 1
    /\ batch_no' = 0
    /\ tpc' = IF epoch + 1 = MaxEpochs THEN "done" ELSE "L176"
    /\ UNCHANGED <<labels, embeddings, positive_samples, negative_samples, loss_args, grad,
                   updates>>
    /\ UNCHANGED steps
    /\ UNCHANGED tripletVars
    /\ UNCHANGED <<samplerVars, lossVars>>

(***************************************************************************)
(* The triplet training cell (lines 342-394), run after the contrastive    *)
(* one.  It rebinds model, criterion, optimizer, train_loader and epoch.   *)
(***************************************************************************)
contrastiveVars == <<labels, embeddings, positive_samples, negative_samples, loss_args>>

(* lines 342-370: a new model and a new optimizer, then the first epoch *)
StartTripletCell ==
    /\ loop = "contrastive"
    /\ tpc = "done"
    /\ loop' = "triplet"
    /\ grad' = "none"
    /\ updates' = 0
    /\ epoch' = 0
    /\ batch_no' = 0
    /\ steps' = << >>
    /\ tpc' = "L371"
    /\ UNCHANGED <<triplet_batch, triplet_embeddings, contrastiveVars>>
    /\ UNCHANGED <<samplerVars, lossVars>>

(* lines 371-374: the loader yields the next batch of n triplets *)
TripletNextBatch(n) ==
    /\ tpc = "L371"
    /\ batch_no < BatchesPerEpoch
    /\ triplet_batch' = n
    /\ triplet_embeddings' = << >>
    /\ grad' = IF grad = "of_batch" THEN "of_earlier_batch" ELSE grad
    /\ steps' = << >>
    /\ tpc' = "L377"
    /\ UNCHANGED <<epoch, batch_no, updates, loop, contrastiveVars>>
    /\ UNCHANGED <<samplerVars, lossVars>>

(* line 377: optimizer.zero_grad() *)
TripletZeroGrad ==
    /\ tpc = "L377"
    /\ grad' = "zero"
    /\ steps' = Append(steps, "zero_grad")
    /\ tpc' = "L380"
    /\ UNCHANGED <<epoch, batch_no, updates, tripletVars, contrastiveVars>>
    /\ UNCHANGED <<samplerVars, lossVars>>

(* lines 380-382: the three model calls; row r embeds triplet r of the batch *)
TripletForwardPass ==
    /\ tpc = "L380"
    /\ triplet_embeddings' = <<[r \in 1 .. triplet_batch |-> r],
                               [r \in 1 .. triplet_batch |-> r],
                               [r \in 1 .. triplet_batch |-> r]>>
    /\ steps' = Append(steps, "forward")
    /\ tpc' = "L385"
    /\ UNCHANGED <<epoch, batch_no, updates, grad, loop, triplet_batch, contrastiveVars>>
    /\ UNCHANGED <<samplerVars, lossVars>>

(* line 385: loss = criterion(anchor_embedding, positive_embedding, negative_embedding) *)
TripletComputeLoss ==
    /\ tpc = "L385"
    /\ steps' = Append(steps, "loss")
    /\ tpc' = "L388"
    /\ UNCHANGED <<epoch, batch_no, updates, grad, tripletVars, contrastiveVars>>
    /\ UNCHANGED <<samplerVars, lossVars>>

(* line 388: loss.backward() adds this batch's gradient to what is stored *)
TripletBackward ==
    /\ tpc = "L388"
    /\ grad' = IF grad \in {"zero", "none"} THEN "of_batch" ELSE "mixed"
    /\ steps' = Append(steps, "backward")
    /\ tpc' = "L389"
    /\ UNCHANGED <<epoch, batch_no, updates, tripletVars, contrastiveVars>>
    /\ UNCHANGED <<samplerVars, lossVars>>

(* line 389: optimizer.step() *)
TripletOptimizerStep ==
    /\ tpc = "L389"
    /\ updates' = updates + 1
    /\ steps' = Append(steps, "update")
    /\ tpc' = "L391"
    /\ UNCHANGED <<epoch, batch_no, grad, tripletVars, contrastiveVars>>
    /\ UNCHANGED <<samplerVars, lossVars>>

(* line 391: running_loss += loss.item(), and back to the head of the loop *)
TripletAccumulateLoss ==
    /\ tpc = "L391"
    /\ batch_no' = batch_no + 1
    /\ tpc' = "L371"
    /\ UNCHANGED <<epoch, updates, grad, steps, tripletVars, contrastiveVars>>
    /\ UNCHANGED <<samplerVars, lossVars>>

(* lines 393-394, 368: the loader is exhausted, the epoch ends *)
TripletEndEpoch ==
    /\ tpc = "L371"
    /\ batch_no = BatchesPerEpoch
    /\ epoch' = epoch + 1
    /\ batch_no' = 0
    /\ tpc' = IF epoch + 1 = MaxEpochs THEN "done" ELSE "L371"
    /\ UNCHANGED <<updates, grad, steps, tripletVars, contrastiveVars>>
    /\ UNCHANGED <<samplerVars, lossVars>>

TrainNext ==
    \/ \E ls \in LabelBatches : NextBatch(ls)
    \/ ForwardPass
    \/ MakePositiveSamples
    \/ MakeNegativeSamples
    \/ ComputeLoss
    \/ ZeroGrad
    \/ Backward
    \/ OptimizerStep
    \/ AccumulateLoss
    \/ EndEpoch
    \/ StartTripletCell
    \/ \E n \in BatchSizes : TripletNextBatch(n)
    \/ TripletZeroGrad
    \/ TripletForwardPass
    \/ TripletComputeLoss
    \/ TripletBackward
    \/ TripletOptimizerStep
    \/ TripletAccumulateLoss
    \/ TripletEndEpoch

SamplerIdle ==
    /\ dataset = << >>
    /\ dataset0 = << >>
    /\ pc = "idle"
    /\ index = 0
    /\ anchor = Unset
    /\ anchor_label = Unset
    /\ positive_index = Unset
    /\ negative_index = Unset
    /\ positive = Unset
    /\ result = << >>
    /\ rng = 0
    /\ len_results = {}
    /\ prev_result = << >>

(***************************************************************************)
(* The specifications.                                                     *)
(***************************************************************************)
Init == SamplerInit /\ LossIdle /\ TrainInit

Next == SamplerNext

Spec == Init /\ [][Next]_vars

LossSpecInit == SamplerIdle /\ LossInit /\ TrainInit

LossSpec == LossSpecInit /\ [][LossNext]_vars

TrainSpecInit == SamplerIdle /\ LossIdle /\ TrainInit

TrainSpec == TrainSpecInit /\ [][TrainNext]_vars

(***************************************************************************)
(* The interpreter always takes the next step of a running call, and the   *)
(* random rng are fair: each index is drawn again and again while a      *)
(* search goes on.                                                         *)
(***************************************************************************)
FairSpec ==
    /\ Spec
    /\ WF_vars(\E k \in RandInt(MaxLen) : DrawPositive(k))
    /\ WF_vars(\E k \in RandInt(MaxLen) : DrawNegative(k))
    /\ WF_vars(TakePositive)
    /\ WF_vars(ReturnTriplet)
    /\ \A k \in RandInt(MaxLen) : WF_vars(RetryPositive(k)) /\ WF_vars(RetryNegative(k))

(***************************************************************************)
(* Properties of the sampler.                                              *)
(***************************************************************************)
InCall == pc \in {"L260", "L261", "L266", "L267"}

IndexGiven == pc # "idle"

ValidIndex == IndexGiven /\ 0 <= index /\ index < Len(dataset)

TwoLabels == Cardinality(DistinctLabels(dataset)) >= 2

OneLabel == Cardinality(DistinctLabels(dataset)) = 1

(* C1: on a dataset with at least two distinct labels and an index in      *)
(* [0, len), a returned triplet (a, p, n) has a = the input of             *)
(* dataset[index], p = the input of an example with the anchor's label and *)
(* n = the input of an example with another label, whatever was drawn.     *)
C1_TripletLabels ==
    (pc = "returned" /\ TwoLabels /\ ValidIndex) =>
        /\ result[1] = dataset[index + 1].input
        /\ positive_index \in 0 .. Len(dataset) - 1
        /\ result[2] = dataset[positive_index + 1].input
        /\ dataset[positive_index + 1].label = dataset[index + 1].label
        /\ negative_index \in 0 .. Len(dataset) - 1
        /\ result[3] = dataset[negative_index + 1].input
        /\ dataset[negative_index + 1].label # dataset[index + 1].label

C1_Witness ==
    /\ pc = "returned"
    /\ TwoLabels
    /\ ValidIndex
    /\ positive_index # index

(* C2: a call with a valid index on a dataset with exactly one distinct    *)
(* label ends in an explicit error; the negative search does not go on     *)
(* for ever.                                                               *)
C2_SingleLabelRaises ==
    [](((pc = "L266") /\ OneLabel /\ ValidIndex) => <>(pc = "raised"))

(* C3: for every index outside [0, len), negative ones included,           *)
(* __getitem__ raises an out-of-range error, returns no triplet and rng  *)
(* no random index.                                                        *)
C3_OutOfRangeRaises ==
    (IndexGiven /\ ~ValidIndex) =>
        /\ pc = "raised"
        /\ result = <<IndexError>>
        /\ positive_index = Unset
        /\ negative_index = Unset

(* C9: __len__ returns the length of the wrapped dataset, and that value   *)
(* is the same before and after any sequence of __getitem__ calls.         *)
C9_LenIsDatasetLen ==
    /\ SamplerLen = Len(dataset0)
    /\ \A n \in len_results : n = Len(dataset0)

C9_Witness ==
    /\ len_results # {}
    /\ Len(dataset0) >= 2
    /\ pc = "returned"

(* C10: on a dataset with at least two distinct labels and a valid index,  *)
(* __getitem__ eventually returns when the rng are fair; and a rejected  *)
(* draw can always be followed by another rejected draw, so no number of   *)
(* rng bounds the search.                                                *)
C10_EventuallyReturns ==
    /\ []((InCall /\ TwoLabels /\ ValidIndex) => <>(pc = "returned"))
    /\ []((pc = "L261" /\ PositiveRejected(positive_index))
            => ENABLED RetryPositive(positive_index))
    /\ []((pc = "L267" /\ NegativeRejected(negative_index))
            => ENABLED RetryNegative(negative_index))

C10_Witness ==
    /\ pc = "L267"
    /\ TwoLabels
    /\ ValidIndex
    /\ NegativeRejected(negative_index)

CallStarts == NotInCall /\ len_results' = len_results

(* C12: no step of __getitem__ changes the underlying dataset or anything  *)
(* outside the call but the random generator, which only the draws of a    *)
(* running call advance; the sampler keeps nothing from one call to the    *)
(* next: every call starts at line 257 with no index drawn and no triplet  *)
(* chosen, every index in range can be drawn at line 260 and at line 266,  *)
(* and a triplet is returned only from the end of the call's own search.   *)
C12_GetItemFrame ==
    /\ [][/\ dataset' = dataset
          /\ UNCHANGED <<lossVars, trainVars>>
          /\ rng' # rng => InCall
          /\ CallStarts =>
                 /\ pc' \in {"L260", "raised"}
                 /\ rng' = rng
                 /\ positive_index' = Unset
                 /\ negative_index' = Unset
                 /\ positive' = Unset
                 /\ pc' = "L260" => anchor' = DatasetGetItem(dataset, index').input
          /\ (pc' = "returned" /\ pc # "returned") => pc = "L267"]_vars
    /\ [](dataset = dataset0)
    /\ [](pc = "L260" => \A k \in RandInt(Len(dataset)) : ENABLED DrawPositive(k))
    /\ [](pc = "L266" => \A k \in RandInt(Len(dataset)) : ENABLED DrawNegative(k))

(* two calls in a row with the same index have returned different triplets *)
C12_Witness ==
    /\ pc = "returned"
    /\ prev_result # << >>
    /\ result[1] = prev_result[1]
    /\ result[2] # prev_result[2] \/ result[3] # prev_result[3]
    /\ ValidIndex
    /\ dataset = dataset0
    /\ rng # 0

(***************************************************************************)
(* Properties of the losses.                                               *)
(***************************************************************************)
Max0(x) == IF x > 0 THEN x ELSE 0

(* the Euclidean distance of two embeddings, on the grid *)
Euclidean(u, v) == SqrtRound(SumSeq([j \in DOMAIN u |-> (u[j] - v[j]) * (u[j] - v[j])]))

(* the distance || u - v + eps || of two embeddings, on the grid *)
EpsShifted(u, v) ==
    SqrtRound(SumSeq([j \in DOMAIN u |->
                         (u[j] - v[j] + PairwiseEps) * (u[j] - v[j] + PairwiseEps)]))

(* d_pos - d_neg + margin of example i under the distance Dist *)
HingeArg(Dist(_, _), i) ==
    Dist(batch.anchor[i], batch.positive[i]) - Dist(batch.anchor[i], batch.negative[i]) + margin

(* the mean over the batch of max(0, d_pos - d_neg + margin) *)
MeanHinge(Dist(_, _)) ==
    Rat(SumSeq([i \in DOMAIN batch.anchor |-> Max0(HingeArg(Dist, i))]), Len(batch.anchor))

Zero == <<0, 1>>

(* margin 0.5, a = [0,0], p = [1,0], n = [0,0] *)
IsExample1 ==
    /\ margin = HalfUnit
    /\ batch = [anchor |-> <<(<<0, 0>>)>>, positive |-> <<(<<One, 0>>)>>,
                negative |-> <<(<<0, 0>>)>>]

(* margin 0.5, a = [0,0], p = [0,0], n = [1,0] *)
IsExample2 ==
    /\ margin = HalfUnit
    /\ batch = [anchor |-> <<(<<0, 0>>)>>, positive |-> <<(<<0, 0>>)>>,
                negative |-> <<(<<One, 0>>)>>]

(* C4: for every batch and every non-negative margin, both losses are >= 0 *)
C4_LossNonNegative ==
    /\ contrastive_out # << >> => contrastive_out[1] >= 0 /\ contrastive_out[2] > 0
    /\ triplet_out # << >> => triplet_out[1] >= 0 /\ triplet_out[2] > 0
    /\ shifted_out # << >> => shifted_out[1] >= 0 /\ shifted_out[2] > 0

C4_Witness ==
    /\ contrastive_out # << >>
    /\ triplet_out # << >>
    /\ Len(batch.anchor) = 2
    /\ HingeArg(Euclidean, 1) < 0
    /\ HingeArg(EpsShifted, 1) < 0
    /\ triplet_out[1] > 0

(* C5, as claimed: both losses equal the mean over the batch of            *)
(* max(0, d_pos - d_neg + margin) with d the Euclidean distance; example 1 *)
(* gives 1.5 and example 2 gives 0.                                        *)
C5_LossIsMeanEuclideanHinge ==
    /\ contrastive_out # << >> =>
          /\ contrastive_out = MeanHinge(Euclidean)
          /\ IsExample1 => contrastive_out = <<3 * HalfUnit, 1>>
          /\ IsExample2 => contrastive_out = Zero
    /\ triplet_out # << >> =>
          /\ triplet_out = MeanHinge(Euclidean)
          /\ IsExample1 => triplet_out = <<3 * HalfUnit, 1>>
          /\ IsExample2 => triplet_out = Zero

(* C5, amended: TripletLoss.forward equals the mean hinge of the Euclidean *)
(* distances (1.5 and 0 on the examples); ContrastiveLoss.forward equals   *)
(* the mean hinge of the distances || a - p + eps ||, || a - n + eps ||    *)
(* (0 on example 2, less than 1.5 on example 1).                           *)
C5_LossIsMeanHingeOfOwnDistance ==
    /\ contrastive_out # << >> =>
          /\ contrastive_out = MeanHinge(EpsShifted)
          /\ IsExample1 => contrastive_out[1] < 3 * HalfUnit * contrastive_out[2]
          /\ IsExample2 => contrastive_out = Zero
    /\ triplet_out # << >> =>
          /\ triplet_out = MeanHinge(Euclidean)
          /\ IsExample1 => triplet_out = <<3 * HalfUnit, 1>>
          /\ IsExample2 => triplet_out = Zero

C5_Witness ==
    /\ contrastive_out # << >>
    /\ triplet_out # << >>
    /\ IsExample1

(* C6, as claimed: each loss is 0 exactly when every example of the batch  *)
(* has d_pos - d_neg + margin <= 0, d the Euclidean distance.              *)
C6_ZeroIffEuclideanHingeNonPositive ==
    /\ contrastive_out # << >> =>
          (contrastive_out = Zero <=> \A i \in DOMAIN batch.anchor : HingeArg(Euclidean, i) <= 0)
    /\ triplet_out # << >> =>
          (triplet_out = Zero <=> \A i \in DOMAIN batch.anchor : HingeArg(Euclidean, i) <= 0)

(* C6, amended: each loss is 0 exactly when every example of the batch has *)
(* d_pos - d_neg + margin <= 0 for the distances that loss computes        *)
(* (Euclidean in TripletLoss, || x1 - x2 + eps || in ContrastiveLoss); one *)
(* example above 0 makes the loss strictly positive.                       *)
C6_ZeroIffOwnHingeNonPositive ==
    /\ contrastive_out # << >> =>
          /\ contrastive_out = Zero <=> \A i \in DOMAIN batch.anchor : HingeArg(EpsShifted, i) <= 0
          /\ (\E i \in DOMAIN batch.anchor : HingeArg(EpsShifted, i) > 0) => contrastive_out[1] > 0
    /\ triplet_out # << >> =>
          /\ triplet_out = Zero <=> \A i \in DOMAIN batch.anchor : HingeArg(Euclidean, i) <= 0
          /\ (\E i \in DOMAIN batch.anchor : HingeArg(Euclidean, i) > 0) => triplet_out[1] > 0

C6_Witness ==
    /\ contrastive_out # << >>
    /\ triplet_out # << >>
    /\ Len(batch.anchor) = 2
    /\ HingeArg(Euclidean, 1) < 0
    /\ HingeArg(Euclidean, 2) > 0
    /\ HingeArg(EpsShifted, 1) < 0
    /\ HingeArg(EpsShifted, 2) > 0

(* C7: adding the same vector c to a, p and n leaves the triplet loss      *)
(* unchanged.                                                              *)
C7_TranslationInvariant ==
    shifted_out # << >> => shifted_out = triplet_out

C7_Witness ==
    /\ shifted_out # << >>
    /\ shift = <<3, 0 - 7>>
    /\ Len(batch.anchor) = 2
    /\ triplet_out[1] > 0

(***************************************************************************)
(* Properties of the training loops.                                       *)
(***************************************************************************)
(* C8: every (anchor, positive, negative) row handed to the loss is a true *)
(* pair construction: the positive comes from an example with the anchor's *)
(* label, the negative from an example with another label.                 *)
C8_TruePairs ==
    loss_args # << >> =>
        \A r \in 1 .. Len(labels) :
            /\ labels[loss_args[2][r]] = labels[loss_args[1][r]]
            /\ labels[loss_args[3][r]] # labels[loss_args[1][r]]

AtLoopHead == tpc \in {"L176", "L371", "done"}

StepsOfBatch == SelectSeq(steps, LAMBDA st : st # "zero_grad")

BatchOrder == <<"forward", "loss", "backward", "update">>

Position(st) == CHOOSE q \in 1 .. Len(steps) : steps[q] = st

Done(st) == \E q \in 1 .. Len(steps) : steps[q] = st

(* C11: in both training loops the steps of a batch are taken in the order  *)
(* forward pass, loss, backward pass, parameter update, each at most once   *)
(* and all of them before the loop is back at its head; the gradients are  *)
(* zeroed in the batch before its backward pass, so what the update uses   *)
(* is this batch's gradient alone; and the optimizer has made exactly one  *)
(* update per batch begun earlier, so no batch starts before the update of *)
(* the one before it.                                                      *)
C11_StepOrder ==
    /\ Len(StepsOfBatch) <= Len(BatchOrder)
    /\ StepsOfBatch = SubSeq(BatchOrder, 1, Len(StepsOfBatch))
    /\ (AtLoopHead /\ (epoch > 0 \/ batch_no > 0)) => StepsOfBatch = BatchOrder
    /\ Done("backward") =>
           /\ Done("zero_grad")
           /\ Position("zero_grad") < Position("backward")
           /\ grad = "of_batch"
    /\ updates = epoch * BatchesPerEpoch + batch_no
                    + (IF ~AtLoopHead /\ Done("update") THEN 1 ELSE 0)

C11_Witness ==
    /\ loop = "triplet"
    /\ tpc = "L391"
    /\ batch_no = 1
    /\ epoch = 1
    /\ steps = <<"zero_grad", "forward", "loss", "backward", "update">>
    /\ updates = BatchesPerEpoch + 2
====
